---- MODULE Spec2Model ----
(***************************************************************************)
(* A model of openapi-trpc's generateOpenAPIDocumentFromTRPCRouter         *)
(* (src/src/generate.ts): one run of the generator over a router, one      *)
(* action per iteration of its loop over the procedures, and one for the   *)
(* final return.                                                           *)
(*                                                                         *)
(* JavaScript values are modelled as follows.                              *)
(*   - An optional value (possibly undefined) is a sequence: Undef = <<>>  *)
(*     and Some(x) = <<x>>.                                                *)
(*   - A string that the code splits, prefixes or capitalises (type tags,  *)
(*     procedure names, path prefixes, path keys) is a sequence of         *)
(*     one-character strings.  Other strings are TLA+ strings.             *)
(*   - A value whose truthiness the code tests (the values of meta) is a   *)
(*     record [t, v] carrying its JavaScript type.                         *)
(*   - An object with a varying key set (operation, JSON schema, path      *)
(*     item) is a function from key strings.                               *)
(*   - A call that may throw returns Ok(v) or Throw(e).                    *)
(***************************************************************************)
EXTENDS Integers, Sequences, FiniteSets, TLC

VARIABLES
    router,     \* Object.entries(_def.procedures): sequence of [name, def]
    options,    \* [pathPrefix, processOperation]
    zodMajor,   \* major version of the schema library loaded: 3 or 4
    idx,        \* number of procedures the loop has finished
    paths,      \* the paths object being accumulated
    pc,         \* "loop" | "returned" | "thrown"
    api,        \* the value returned (Undef until the return)
    error,      \* the exception that left the function (Undef if none)
    built,      \* history: per finished iteration, what was built
    hookCalls   \* history: the calls of options.processOperation

vars == <<router, options, zodMajor, idx, paths, pc, api, error, built, hookCalls>>

(***************************************************************************)
(* Bounds of the model.                                                    *)
(***************************************************************************)
MaxProcs == 2
MaxPrefixLen == 4
MaxNameLen == 3
MaxInputs == 3
MaxKeyNameLen == 2

(***************************************************************************)
(* Optional values and outcomes of calls.                                  *)
(***************************************************************************)
Undef == <<>>
Some(x) == <<x>>
IsDef(o) == Len(o) > 0
Ok(v) == [ok |-> TRUE, value |-> v]
Throw(e) == [ok |-> FALSE, error |-> e]

EmptyObj == [k \in {} |-> Undef]

(***************************************************************************)
(* Strings as sequences of characters.                                     *)
(***************************************************************************)
RECURSIVE SplitFrom(_, _, _)
\* String.prototype.split(sep): cur is the segment being read.
SplitFrom(s, sep, cur) ==
    IF s = <<>> THEN <<cur>>
    ELSE IF Head(s) = sep THEN <<cur>> \o SplitFrom(Tail(s), sep, <<>>)
    ELSE SplitFrom(Tail(s), sep, Append(cur, Head(s)))

Split(s, sep) == SplitFrom(s, sep, <<>>)

RECURSIVE Join(_, _)
\* Array.prototype.join(sep)
Join(parts, sep) ==
    IF parts = <<>> THEN <<>>
    ELSE IF Len(parts) = 1 THEN parts[1]
    ELSE parts[1] \o <<sep>> \o Join(Tail(parts), sep)

RECURSIVE FilterBoolean(_)
\* Array.prototype.filter(Boolean) on strings: the empty string is falsy.
FilterBoolean(parts) ==
    IF parts = <<>> THEN <<>>
    ELSE IF Head(parts) = <<>> THEN FilterBoolean(Tail(parts))
    ELSE <<Head(parts)>> \o FilterBoolean(Tail(parts))

\* slice(0, -1)
DropLast(a) == SubSeq(a, 1, Len(a) - 1)
\* slice(0, 1)
TakeFirst(a) == SubSeq(a, 1, IF Len(a) < 1 THEN Len(a) ELSE 1)

ToUpperCase(c) ==
    CASE c = "o" -> "O"
      [] c = "a" -> "A"
      [] c = "v" -> "V"
      [] c = "s" -> "S"
      [] c = "n" -> "N"
      [] OTHER -> c

StartsWithZod(s) == Len(s) >= 3 /\ SubSeq(s, 1, 3) = <<"Z", "o", "d">>

(***************************************************************************)
(* ZodTypeNames (generate.ts 14-19) and the tags of the two dialects.      *)
(***************************************************************************)
ZodArray == <<"Z", "o", "d", "A", "r", "r", "a", "y">>
ZodObject == <<"Z", "o", "d", "O", "b", "j", "e", "c", "t">>
ZodVoid == <<"Z", "o", "d", "V", "o", "i", "d">>
ZodOptional == <<"Z", "o", "d", "O", "p", "t", "i", "o", "n", "a", "l">>
ZodString == <<"Z", "o", "d", "S", "t", "r", "i", "n", "g">>
ZodNumber == <<"Z", "o", "d", "N", "u", "m", "b", "e", "r">>

tObject == <<"o", "b", "j", "e", "c", "t">>
tArray == <<"a", "r", "r", "a", "y">>
tVoid == <<"v", "o", "i", "d">>
tOptional == <<"o", "p", "t", "i", "o", "n", "a", "l">>
tString == <<"s", "t", "r", "i", "n", "g">>
tNumber == <<"n", "u", "m", "b", "e", "r">>

(***************************************************************************)
(* Type descriptors of the schema library.  zDef is the _def field, def    *)
(* the def field; shape maps the keys of an object descriptor to the       *)
(* descriptors of its properties; description is the descriptive text;     *)
(* repr tells which JSON-Schema converters can represent the descriptor:   *)
(* "any" (both), "legacyOnly" (the native one throws), "none" (both        *)
(* throw).                                                                 *)
(***************************************************************************)
Desc(zd, d, sh, descr, rp) ==
    [zDef |-> zd, def |-> d, shape |-> sh, description |-> descr, repr |-> rp]

\* Dialect A (Zod 3): the tag is _def.typeName, prefixed.
DialectA(tag, sh, descr, rp) ==
    Desc(Some([typeName |-> Some(tag), type |-> Undef]), Undef, sh, descr, rp)
\* Dialect B (Zod 4): the tag is _def.type and def.type, unprefixed.
DialectB(tag, sh, descr, rp) ==
    Desc(Some([typeName |-> Undef, type |-> Some(tag)]),
         Some([type |-> Some(tag)]), sh, descr, rp)
\* Dialect B with the tag at def.type only.
DialectBDef(tag, sh, descr, rp) ==
    Desc(Undef, Some([type |-> Some(tag)]), sh, descr, rp)
\* A value that is no schema: _def present, no tag anywhere.
Untagged ==
    Desc(Some([typeName |-> Undef, type |-> Undef]), Undef, EmptyObj, Undef, "any")

\* JavaScript truthiness of an optional string.
TruthyStr(o) == IsDef(o) /\ o[1] # <<>>
\* a || b
OrElse(a, b) == IF TruthyStr(a) THEN a ELSE b

\* schema?._def?.typeName, schema?._def?.type, schema?.def?.type
ZDefTypeName(input) ==
    IF IsDef(input) /\ IsDef(input[1].zDef) THEN input[1].zDef[1].typeName ELSE Undef
ZDefType(input) ==
    IF IsDef(input) /\ IsDef(input[1].zDef) THEN input[1].zDef[1].type ELSE Undef
DefType(input) ==
    IF IsDef(input) /\ IsDef(input[1].def) THEN input[1].def[1].type ELSE Undef

\* getZodTypeName reading the three locations in the opposite order.
getZodTypeNameDefFirst(input) ==
    LET typeName == OrElse(OrElse(DefType(input), ZDefType(input)), ZDefTypeName(input))
    IN  IF TruthyStr(typeName) /\ ~StartsWithZod(typeName[1])
        THEN Some(<<"Z", "o", "d">> \o <<ToUpperCase(Head(typeName[1]))>>
                  \o Tail(typeName[1]))
        ELSE typeName

\* getZodTypeName (generate.ts 144-155); input is an optional descriptor.
getZodTypeName(input) ==
    LET typeName == OrElse(OrElse(ZDefTypeName(input), ZDefType(input)), DefType(input))
    IN  IF TruthyStr(typeName) /\ ~StartsWithZod(typeName[1])
        THEN Some(<<"Z", "o", "d">> \o <<ToUpperCase(Head(typeName[1]))>>
                  \o Tail(typeName[1]))
        ELSE typeName

\* asZodObject (generate.ts 157-175)
asZodObject(input) ==
    LET typeName == getZodTypeName(input)
    IN  IF /\ typeName # Some(ZodObject)
           /\ typeName # Some(ZodVoid)
           /\ typeName # Some(ZodOptional)
        THEN Throw([kind |-> "InputShape",
                    typeName |-> typeName,
                    hasZDef |-> IsDef(input) /\ IsDef(input[1].zDef),
                    hasDef |-> IsDef(input) /\ IsDef(input[1].def),
                    zDefType |-> ZDefType(input),
                    defType |-> DefType(input),
                    zDefTypeName |-> ZDefTypeName(input)])
        ELSE Ok(input[1])

\* asZodType without the test: whatever it is given passes.
asZodTypeUnchecked(input) == Ok(input[1])

\* asZodType (generate.ts 177-182)
asZodType(input) ==
    IF ~TruthyStr(getZodTypeName(input))
    THEN Throw([kind |-> "InvalidSchema"])
    ELSE Ok(input[1])

(***************************************************************************)
(* The schema library as the generator uses it.                            *)
(***************************************************************************)
\* z.object(shape) of the loaded library: Zod 3 builds dialect A, Zod 4 B.
zObject(sh, rp) ==
    IF zodMajor = 3 THEN DialectA(ZodObject, sh, Undef, rp)
    ELSE DialectB(tObject, sh, Undef, rp)

Worst(r1, r2) ==
    IF r1 = "none" \/ r2 = "none" THEN "none"
    ELSE IF r1 = "legacyOnly" \/ r2 = "legacyOnly" THEN "legacyOnly"
    ELSE "any"

\* merge with the accumulator's definition winning on a shared key.
mergeFirstWins(acc, cur) ==
    IF getZodTypeName(Some(acc)) # Some(ZodObject)
    THEN Throw([kind |-> "TypeError"])
    ELSE Ok(Desc(acc.zDef, acc.def, acc.shape @@ cur.shape, Undef,
                 Worst(acc.repr, cur.repr)))

\* acc.merge(cur) at generate.ts 49.  Only an object descriptor has a merge
\* method: on a void or optional descriptor the call is a TypeError.  The
\* merged object has the keys of both, cur's definition winning.
merge(acc, cur) ==
    IF getZodTypeName(Some(acc)) # Some(ZodObject)
    THEN Throw([kind |-> "TypeError"])
    ELSE Ok(Desc(acc.zDef, acc.def, cur.shape @@ acc.shape, Undef,
                 Worst(acc.repr, cur.repr)))

RECURSIVE reduce(_, _)
\* inputs.slice(1).reduce((acc, cur) => asZodObject(acc).merge(asZodObject(cur)), init)
\* (generate.ts 45-51).  The arguments of the call are evaluated before the
\* call finds that merge is no function.
reduce(acc, rest) ==
    IF rest = <<>> THEN Ok(acc)
    ELSE LET a == asZodObject(Some(acc))
             c == asZodObject(Some(Head(rest)))
         IN  IF ~a.ok THEN a
             ELSE IF ~c.ok THEN c
             ELSE LET m == merge(a.value, c.value)
                  IN  IF ~m.ok THEN m ELSE reduce(m.value, Tail(rest))

\* procDef.inputs.slice(1)
Rest(inputs) == IF inputs = <<>> THEN <<>> ELSE Tail(inputs)

\* procDef.inputs[0]
First(inputs) == IF Len(inputs) > 0 THEN Some(inputs[1]) ELSE Undef

\* EffectiveInput without the test for an array: the first input is merged too.
EffectiveInputMerging(inputs) ==
    LET init == asZodObject(IF IsDef(First(inputs)) THEN First(inputs)
                            ELSE Some(zObject(EmptyObj, "any")))
    IN  IF ~init.ok THEN init ELSE reduce(init.value, Rest(inputs))

\* The effective input descriptor (generate.ts 42-51).
EffectiveInput(inputs) ==
    IF getZodTypeName(First(inputs)) = Some(ZodArray)
    THEN Ok(inputs[1])
    ELSE LET init == asZodObject(IF IsDef(First(inputs)) THEN First(inputs)
                                 ELSE Some(zObject(EmptyObj, "any")))
         IN  IF ~init.ok THEN init ELSE reduce(init.value, Rest(inputs))

(***************************************************************************)
(* JSON-Schema conversion (generate.ts 198-218).                           *)
(***************************************************************************)
RECURSIVE JsonSchemaOf(_)
\* The JSON Schema of a descriptor, as either converter writes it.
JsonSchemaOf(d) ==
    LET tn == getZodTypeName(Some(d))
        descr == IF IsDef(d.description) THEN [description |-> d.description[1]]
                 ELSE EmptyObj
    IN  IF tn = Some(ZodObject)
        THEN [type |-> "object",
              properties |-> [k \in DOMAIN d.shape |-> JsonSchemaOf(d.shape[k])]]
             @@ descr
        ELSE IF tn = Some(ZodArray) THEN [type |-> "array"] @@ descr
        ELSE IF tn = Some(ZodString) THEN [type |-> "string"] @@ descr
        ELSE IF tn = Some(ZodNumber) THEN [type |-> "number"] @@ descr
        ELSE descr

\* z.toJSONSchema(input), the native converter of Zod 4
zToJSONSchema(input) ==
    IF input.repr # "any" THEN Throw([kind |-> "NativeConversion"])
    ELSE Ok(("$schema" :> "https://json-schema.org/draft/2020-12/schema")
            @@ JsonSchemaOf(input))

\* zodToJsonSchema(input), the zod-to-json-schema package
zodToJsonSchema(input) ==
    IF input.repr = "none" THEN Throw([kind |-> "FallbackConversion"])
    ELSE Ok(("$schema" :> "http://json-schema.org/draft-07/schema#")
            @@ JsonSchemaOf(input))

\* const { $schema, ...output } = result
StripSchema(result) == [k \in DOMAIN result \ {"$schema"} |-> result[k]]

\* typeof z.toJSONSchema === 'function'
HasNative == zodMajor = 4

\* The outcome of a conversion with the converters it called, in order.
WithCalls(r, calls) == r @@ [calls |-> calls]

FallbackAfter(input, calls) ==
    LET f == zodToJsonSchema(input)
    IN  WithCalls(IF f.ok THEN Ok(StripSchema(f.value)) ELSE f,
                  Append(calls, "fallback"))

\* toJsonSchema without the catch: a failure of the native converter leaves it.
toJsonSchemaUncaught(input) ==
    IF HasNative
    THEN LET n == zToJSONSchema(input)
         IN  WithCalls(IF n.ok THEN Ok(StripSchema(n.value)) ELSE n, <<"native">>)
    ELSE FallbackAfter(input, <<>>)

\* toJsonSchema (generate.ts 198-218)
toJsonSchema(input) ==
    IF HasNative
    THEN LET n == zToJSONSchema(input)
         IN  IF n.ok THEN WithCalls(Ok(StripSchema(n.value)), <<"native">>)
             ELSE FallbackAfter(input, <<"native">>)
    ELSE FallbackAfter(input, <<>>)

(***************************************************************************)
(* Building one operation (generate.ts 52-131).                            *)
(***************************************************************************)
\* Values of meta and of the operation carry their JavaScript type.
Str(s) == [t |-> "str", v |-> s]
Bool(b) == [t |-> "bool", v |-> b]
Arr(a) == [t |-> "arr", v |-> a]
Truthy(x) ==
    CASE x.t = "str" -> x.v # ""
      [] x.t = "bool" -> x.v
      [] OTHER -> TRUE

\* allowedOperationKeys of ./meta
allowedOperationKeys == <<"tags", "summary", "description", "externalDocs", "deprecated">>

\* PathKey without .filter(Boolean): the empty segments stay.
PathKeyUnfiltered(pathPrefix, procName) ==
    LET prefix == IF TruthyStr(pathPrefix) THEN pathPrefix[1] ELSE <<"/">>
    IN  Join(<< <<>> >> \o Split(prefix, "/") \o <<procName>>, "/")

\* PathKey that ends with the first dot-segment of the name, not the name.
PathKeyGrouped(pathPrefix, procName) ==
    LET prefix == IF TruthyStr(pathPrefix) THEN pathPrefix[1] ELSE <<"/">>
    IN  Join(<< <<>> >> \o FilterBoolean(Split(prefix, "/"))
             \o <<Split(procName, ".")[1]>>, "/")

\* The key of the procedure in paths (generate.ts 63-67); the prefix is optional.
PathKey(pathPrefix, procName) ==
    LET prefix == IF TruthyStr(pathPrefix) THEN pathPrefix[1] ELSE <<"/">>
    IN  Join(<< <<>> >> \o FilterBoolean(Split(prefix, "/")) \o <<procName>>, "/")

\* DefaultTags without .slice(0, -1): the last segment counts too.
DefaultTagsWithLeaf(procName) == TakeFirst(Split(procName, "."))

\* procName.split('.').slice(0, -1).slice(0, 1)  (generate.ts 83)
DefaultTags(procName) == TakeFirst(DropLast(Split(procName, ".")))

\* OperationInfo without the test of the value: every allowed key of meta is copied.
OperationInfoUntested(procName, meta) ==
    LET copied == {k \in {allowedOperationKeys[i] : i \in DOMAIN allowedOperationKeys} :
                     IsDef(meta) /\ k \in DOMAIN meta[1]}
    IN  [k \in copied |-> meta[1][k]]
        @@ [tags |-> Arr(TakeFirst(DropLast(Split(procName, "."))))]

\* operationInfo after the loop over allowedOperationKeys (generate.ts 82-90)
OperationInfo(procName, meta) ==
    LET copied == {k \in {allowedOperationKeys[i] : i \in DOMAIN allowedOperationKeys} :
                     /\ IsDef(meta)
                     /\ k \in DOMAIN meta[1]
                     /\ Truthy(meta[1][k])}
    IN  [k \in copied |-> meta[1][k]] @@ [tags |-> Arr(DefaultTags(procName))]

\* Envelope that does not wrap: the output itself is converted.
EnvelopeBare(output) == output

\* z.object({ result: z.object({ data: output }) })  (generate.ts 56-60)
Envelope(output) ==
    zObject([result |-> zObject([data |-> output], output.repr)], output.repr)

\* The description of the 200 response (generate.ts 70)
ResponseDescription(output) ==
    IF IsDef(output) /\ IsDef(output[1].description) /\ output[1].description[1] # ""
    THEN output[1].description[1]
    ELSE ""

\* responses (generate.ts 68-81); outputSchema is optional
Responses(output, outputSchema) ==
    "200" :> ([description |-> ResponseDescription(output)]
              @@ (IF IsDef(outputSchema)
                  THEN [content |-> ("application/json" :> [schema |-> outputSchema[1]])]
                  ELSE EmptyObj))

\* QueryOperation that sends the input as a request body.
QueryOperationAsBody(operationInfo, procName, responses, inputSchema) ==
    [operationId |-> procName,
     responses |-> responses,
     requestBody |-> [content |-> ("application/json" :> [schema |-> inputSchema])]]
    @@ operationInfo

\* The operation handed to processOperation in the query branch (generate.ts 94-109)
QueryOperation(operationInfo, procName, responses, inputSchema) ==
    [operationId |-> procName,
     responses |-> responses,
     parameters |-> << ("in" :> "query") @@ ("name" :> "input")
                       @@ ("content" :> ("application/json" :> [schema |-> inputSchema])) >>]
    @@ operationInfo

\* The operation handed to processOperation in the other branch (generate.ts 116-127)
BodyOperation(operationInfo, procName, responses, inputSchema) ==
    [operationId |-> procName,
     responses |-> responses,
     requestBody |-> [content |-> ("application/json" :> [schema |-> inputSchema])]]
    @@ operationInfo

(***************************************************************************)
(* The caller's hook.  Its behaviours: "void" returns nothing; "replace"   *)
(* returns an object of its own; "secure" returns the operation it was     *)
(* given, with a security requirement added when meta.requiresAuth is set. *)
(***************************************************************************)
Replacement == [summary |-> Str("replaced"), security |-> Arr(<<"bearerAuth">>)]

HookReturn(mode, op, meta) ==
    CASE mode = "void" -> Undef
      [] mode = "replace" -> Some(Replacement)
      [] OTHER ->
           IF IsDef(meta) /\ "requiresAuth" \in DOMAIN meta[1] /\ Truthy(meta[1].requiresAuth)
           THEN Some([security |-> Arr(<<"bearerAuth">>)] @@ op)
           ELSE Some(op)

\* options.processOperation?.(op, meta)
OptionsProcessOperation(op, meta) ==
    IF IsDef(options.processOperation)
    THEN HookReturn(options.processOperation[1], op, meta)
    ELSE Undef

\* processOperation that fills the hook's result up with the base operation.
processOperationMerged(op, meta) ==
    LET r == OptionsProcessOperation(op, meta)
    IN  IF IsDef(r) THEN r[1] @@ op ELSE op

\* processOperation (generate.ts 31-36)
processOperation(op, meta) ==
    LET r == OptionsProcessOperation(op, meta)
    IN  IF IsDef(r) THEN r[1] ELSE op

(***************************************************************************)
(* One iteration of the loop over the procedures (generate.ts 37-132): the *)
(* exception that leaves it, or what it built.                             *)
(***************************************************************************)
\* Assemble that hands the hook the allowed keys of meta only.
AssembleFilteredMeta(procName, procDef, input, inputSchema, outputSchema, outputCalls) ==
    Ok([name |-> procName,
        key |-> PathKey(options.pathPrefix, procName),
        method |-> IF procDef.type = "query" THEN "get" ELSE "post",
        input |-> input,
        inputCalls |-> inputSchema.calls,
        outputCalls |-> outputCalls,
        base |-> IF procDef.type = "query"
                 THEN QueryOperation(OperationInfo(procName, procDef.meta), procName,
                                     Responses(procDef.output, outputSchema),
                                     inputSchema.value)
                 ELSE BodyOperation(OperationInfo(procName, procDef.meta), procName,
                                    Responses(procDef.output, outputSchema),
                                    inputSchema.value),
        meta |-> IF IsDef(procDef.meta)
                 THEN Some([k \in DOMAIN procDef.meta[1]
                                   \cap {allowedOperationKeys[i] : i \in DOMAIN allowedOperationKeys}
                               |-> procDef.meta[1][k]])
                 ELSE Undef])

\* The operation is built and handed to the hook (generate.ts 63-131).
Assemble(procName, procDef, input, inputSchema, outputSchema, outputCalls) ==
    Ok([name |-> procName,
        key |-> PathKey(options.pathPrefix, procName),
        method |-> IF procDef.type = "query" THEN "get" ELSE "post",
        input |-> input,
        inputCalls |-> inputSchema.calls,
        outputCalls |-> outputCalls,
        base |-> IF procDef.type = "query"
                 THEN QueryOperation(OperationInfo(procName, procDef.meta), procName,
                                     Responses(procDef.output, outputSchema),
                                     inputSchema.value)
                 ELSE BodyOperation(OperationInfo(procName, procDef.meta), procName,
                                    Responses(procDef.output, outputSchema),
                                    inputSchema.value),
        meta |-> procDef.meta])

\* converted is the outcome of toJsonSchema on the envelope (generate.ts 55-61).
AfterOutputSchema(procName, procDef, input, inputSchema, converted) ==
    IF ~converted.ok THEN Throw(converted.error @@ [calls |-> converted.calls])
    ELSE Assemble(procName, procDef, input, inputSchema, Some(converted.value),
                  converted.calls)

\* checked is the outcome of asZodType(output) (generate.ts 58).
AfterOutputCheck(procName, procDef, input, inputSchema, checked) ==
    IF ~checked.ok THEN Throw(checked.error)
    ELSE AfterOutputSchema(procName, procDef, input, inputSchema,
                           toJsonSchema(Envelope(checked.value)))

\* inputSchema is the outcome of toJsonSchema(input) (generate.ts 53).
AfterInputSchema(procName, procDef, input, inputSchema) ==
    IF ~inputSchema.ok THEN Throw(inputSchema.error @@ [calls |-> inputSchema.calls])
    ELSE IF IsDef(procDef.output)
    THEN AfterOutputCheck(procName, procDef, input, inputSchema, asZodType(procDef.output))
    ELSE Assemble(procName, procDef, input, inputSchema, Undef, <<>>)

\* input is the outcome of the reconciliation of the inputs (generate.ts 42-51).
AfterInput(procName, procDef, input) ==
    IF ~input.ok THEN Throw(input.error)
    ELSE AfterInputSchema(procName, procDef, input.value, toJsonSchema(input.value))

Iteration(procName, procDef) ==
    AfterInput(procName, procDef, EffectiveInput(procDef.inputs))

\* The procedure the loop is at.
Current == router[idx + 1]
AtProcedure == pc = "loop" /\ idx < Len(router)

\* paths[key] = { [method]: processOperation(operation, meta) }
Store(it) ==
    /\ paths' = (it.key :> (it.method :> processOperation(it.base, it.meta))) @@ paths
    /\ built' = Append(built, it)
    /\ hookCalls' = IF IsDef(options.processOperation)
                    THEN Append(hookCalls, [op |-> it.base, meta |-> it.meta])
                    ELSE hookCalls
    /\ idx' = idx + 1
    /\ UNCHANGED <<router, options, zodMajor, pc, api, error>>

Completes(it) == it.ok /\ Store(it.value)

Throws(it) == ~it.ok /\ error' = Some(it.error)

\* An iteration that takes the query branch (generate.ts 91-112).
ProcessQuery ==
    /\ AtProcedure
    /\ Current.def.type = "query"
    /\ Completes(Iteration(Current.name, Current.def))

\* An iteration that takes the other branch (generate.ts 113-131).
ProcessOther ==
    /\ AtProcedure
    /\ Current.def.type # "query"
    /\ Completes(Iteration(Current.name, Current.def))

\* An iteration that throws: the exception leaves the function.
Abort ==
    /\ AtProcedure
    /\ Throws(Iteration(Current.name, Current.def))
    /\ pc' = "thrown"
    /\ UNCHANGED <<router, options, zodMajor, idx, paths, api, built, hookCalls>>

\* Document with components beside the three fields.
DocumentWithComponents(p) ==
    [openapi |-> "3.0.0",
     info |-> [title |-> "tRPC HTTP-RPC", version |-> ""],
     paths |-> p,
     components |-> EmptyObj]

\* The document (generate.ts 133-141)
Document(p) ==
    [openapi |-> "3.0.0",
     info |-> [title |-> "tRPC HTTP-RPC", version |-> ""],
     paths |-> p]

\* The loop is over: return the document.
Return ==
    /\ pc = "loop"
    /\ idx = Len(router)
    /\ api' = Some(Document(paths))
    /\ pc' = "returned"
    /\ UNCHANGED <<router, options, zodMajor, idx, paths, error, built, hookCalls>>

Next == ProcessQuery \/ ProcessOther \/ Abort \/ Return

(***************************************************************************)
(* The inputs of the model: descriptors, procedures, routers, options.     *)
(***************************************************************************)
StrLeaf == DialectA(ZodString, EmptyObj, Undef, "any")
NumLeaf == DialectB(tNumber, EmptyObj, Undef, "any")

ObjA1 == DialectA(ZodObject, [name |-> StrLeaf], Some("User input data"), "any")
ObjB2 == DialectB(tObject, [name |-> NumLeaf, id |-> StrLeaf], Undef, "any")
ObjD3 == DialectBDef(tObject, [id |-> NumLeaf], Undef, "any")
ArrA == DialectA(ZodArray, EmptyObj, Undef, "any")
ArrB == DialectB(tArray, EmptyObj, Undef, "any")
VoidA == DialectA(ZodVoid, EmptyObj, Undef, "legacyOnly")
OptB == DialectB(tOptional, EmptyObj, Undef, "any")
ObjLegacy == DialectA(ZodObject, [id |-> StrLeaf], Undef, "legacyOnly")
ObjNone == DialectB(tObject, [id |-> StrLeaf], Undef, "none")
StrOk == DialectA(ZodString, EmptyObj, Some("Success message"), "any")
StrBlank == DialectB(tString, EmptyObj, Some(""), "any")

nA == <<"a">>
nUG == <<"u", ".", "g">>
nUGX == <<"u", ".", "g", ".", "x">>

ProcDef(type, inputs, output, meta) ==
    [type |-> type, inputs |-> inputs, output |-> output, meta |-> meta]
Proc(name, def) == [name |-> name, def |-> def]

InputLists ==
    { <<>>, <<ObjA1>>, <<ObjA1, ObjB2>>, <<ArrB>>, <<ArrA, StrLeaf>>, <<OptB>>,
      <<ObjB2, VoidA>>, <<VoidA, ObjA1, StrLeaf>>, <<StrLeaf>>, <<ObjA1, Untagged>>,
      <<ObjLegacy>>, <<ObjNone>> }

Outputs == { Some(StrOk), Some(ObjA1), Some(StrBlank), Some(Untagged) }

Metas ==
    { Undef,
      Some([summary |-> Str("Private endpoint"),
            description |-> Str("Requires authentication"),
            requiresAuth |-> Bool(TRUE)]),
      Some([summary |-> Str(""), deprecated |-> Bool(FALSE), rateLimit |-> Str("10")]),
      Some([tags |-> Arr(<< <<"a", "d", "m">> >>), deprecated |-> Bool(TRUE)]),
      Some([tags |-> Arr(<<>>)]) }

\* Procedures that differ in their inputs, in their output, in their meta.
ByInputs ==
    { Proc(nUG, ProcDef(t, ins, Undef, Undef)) :
        t \in {"query", "mutation"}, ins \in InputLists }
ByOutput ==
    { Proc(nA, ProcDef(t, <<ObjD3>>, out, Undef)) :
        t \in {"query", "subscription"}, out \in Outputs }
ByMeta ==
    { Proc(nUGX, ProcDef("query", <<>>, Undef, m)) : m \in Metas }

Procedures == ByInputs \cup ByOutput \cup ByMeta

\* The keys of an object are distinct.
DistinctNames(r) ==
    \A i, j \in DOMAIN r : i # j => r[i].name # r[j].name

Routers ==
    { r \in UNION { [1..n -> Procedures] : n \in 0..MaxProcs } : DistinctNames(r) }

Hooks == { Undef, Some("void"), Some("replace"), Some("secure") }

Options ==
    { [pathPrefix |-> p, processOperation |-> h] :
        p \in { Undef, Some(<<"/", "a">>) }, h \in Hooks }

Start ==
    /\ idx = 0
    /\ paths = EmptyObj
    /\ pc = "loop"
    /\ api = Undef
    /\ error = Undef
    /\ built = <<>>
    /\ hookCalls = <<>>

Init ==
    /\ router \in Routers
    /\ options \in Options
    /\ zodMajor \in {3, 4}
    /\ Start

Spec == Init /\ [][Next]_vars

(***************************************************************************)
(* Runs over one procedure whose name, whose path prefix or whose inputs   *)
(* range over every short sequence.                                        *)
(***************************************************************************)
SeqsUpTo(S, n) == UNION { [1..k -> S] : k \in 0..n }

PlainQuery == ProcDef("query", <<>>, Undef, Undef)
PlainMutation == ProcDef("mutation", <<ObjA1>>, Undef, Undef)
TaggedQuery == ProcDef("query", <<>>, Undef, Some([tags |-> Arr(<< <<"a", "d", "m">> >>)]))
BadMutation == ProcDef("mutation", <<StrLeaf>>, Undef, Undef)

NoHook(p) == [pathPrefix |-> p, processOperation |-> Undef]

\* Every prefix of at most MaxPrefixLen characters, and no prefix.
AllPrefixes == { Undef } \cup { Some(p) : p \in SeqsUpTo({"/", "a", "v"}, MaxPrefixLen) }

InitPrefix ==
    /\ router \in { <<Proc(n, d)>> : n \in {nA, nUG},
                                       d \in {PlainQuery, PlainMutation, BadMutation} }
    /\ options \in { NoHook(p) : p \in AllPrefixes }
    /\ zodMajor = 3
    /\ Start

SpecPrefix == InitPrefix /\ [][Next]_vars

\* Every name of 1 to MaxNameLen characters.
AllNames == SeqsUpTo({"u", "g", "."}, MaxNameLen) \ { <<>> }

InitNames ==
    /\ router \in { <<Proc(n, d)>> : n \in AllNames,
                                       d \in {PlainQuery, PlainMutation, TaggedQuery,
                                              BadMutation} }
    /\ options \in { NoHook(Undef), NoHook(Some(<<"/", "a">>)) }
    /\ zodMajor = 4
    /\ Start

SpecNames == InitNames /\ [][Next]_vars

\* Every list of at most MaxInputs input descriptors.
InputDescs == { ObjA1, ObjB2, ObjD3, ArrB, VoidA, OptB, StrLeaf, Untagged }

InitInputs ==
    /\ router \in { <<Proc(nA, ProcDef(t, ins, Undef, Undef))>> :
                      t \in {"query", "mutation"}, ins \in SeqsUpTo(InputDescs, MaxInputs) }
    /\ options = NoHook(Undef)
    /\ zodMajor \in {3, 4}
    /\ Start

SpecInputs == InitInputs /\ [][Next]_vars

\* A value without _def and without def.
NoTags == Desc(Undef, Undef, EmptyObj, Undef, "any")

\* Outputs that classify and outputs that do not, after inputs that
\* reconcile and inputs that do not; alone or after a procedure that succeeds.
OutputChoices == { Undef, Some(StrOk), Some(ObjB2), Some(Untagged), Some(NoTags) }
InputChoices == { <<>>, <<ObjA1>>, <<ArrB>>, <<StrLeaf>>, <<ObjNone>> }

InitOutputs ==
    /\ \E t \in {"query", "mutation", "subscription"}, ins \in InputChoices,
          out \in OutputChoices :
          router \in { <<Proc(nA, ProcDef(t, ins, out, Undef))>>,
                       <<Proc(nUG, PlainQuery), Proc(nA, ProcDef(t, ins, out, Undef))>> }
    /\ options \in { NoHook(Undef), [pathPrefix |-> Undef, processOperation |-> Some("void")] }
    /\ zodMajor \in {3, 4}
    /\ Start

SpecOutputs == InitOutputs /\ [][Next]_vars

\* Descriptors with every combination of tags at the three locations.
TagsA == { ZodObject, ZodArray, ZodString }
TagsB == { tObject, tArray, tVoid, tString, ZodVoid }
Maybe(S) == { Undef } \cup { Some(x) : x \in S }

TagDescs ==
    { Desc(zd, d, EmptyObj, Undef, "any") :
        zd \in Maybe({ [typeName |-> a, type |-> b] : a \in Maybe(TagsA), b \in Maybe(TagsB) }),
        d \in Maybe({ [type |-> c] : c \in Maybe(TagsB) }) }

InitTags ==
    /\ router \in { <<Proc(nA, ProcDef(t, <<d>>, Undef, Undef))>> :
                      t \in {"query", "mutation"}, d \in TagDescs }
    /\ options = NoHook(Undef)
    /\ zodMajor \in {3, 4}
    /\ Start

SpecTags == InitTags /\ [][Next]_vars

\* Routers of procedures with every short name, under a few prefixes.
KeyNames == SeqsUpTo({"u", "."}, MaxKeyNameLen) \ { <<>> }
KeyProcedures ==
    { Proc(n, d) : n \in KeyNames, d \in {PlainQuery, PlainMutation} }
    \cup { Proc(<<"u">>, BadMutation) }
KeyRouters ==
    { r \in UNION { [1..n -> KeyProcedures] : n \in 0..MaxProcs } : DistinctNames(r) }

InitPaths ==
    /\ router \in KeyRouters
    /\ options \in { NoHook(p) : p \in { Undef, Some(<<"/", "a">>), Some(<<"u">>) } }
    /\ zodMajor = 4
    /\ Start

SpecPaths == InitPaths /\ [][Next]_vars

(***************************************************************************)
(* The properties.  built[j] is what the loop built for router[j].         *)
(***************************************************************************)
Finished == 1..Len(built)

\* The path item of procedure j and the operation stored in it.
PathItem(j) == paths[built[j].key]
StoredOp(j) == PathItem(j)[CHOOSE m \in DOMAIN PathItem(j) : TRUE]

\* The JSON Schema of the effective input of procedure j.
InputSchema(j) == JsonSchemaOf(built[j].input)

JsonContent(schema) == "application/json" :> [schema |-> schema]

CarriesInputParameter(op, schema) ==
    /\ "parameters" \in DOMAIN op
    /\ Len(op.parameters) = 1
    /\ DOMAIN op.parameters[1] = {"in", "name", "content"}
    /\ op.parameters[1]["in"] = "query"
    /\ op.parameters[1]["name"] = "input"
    /\ op.parameters[1]["content"] = JsonContent(schema)
    /\ "requestBody" \notin DOMAIN op

CarriesRequestBody(op, schema) ==
    /\ "requestBody" \in DOMAIN op
    /\ op.requestBody = [content |-> JsonContent(schema)]
    /\ "parameters" \notin DOMAIN op

MethodByKind(j) ==
    DOMAIN PathItem(j) = IF router[j].def.type = "query" THEN {"get"} ELSE {"post"}

ShapeByKind(j, op) ==
    IF router[j].def.type = "query"
    THEN CarriesInputParameter(op, InputSchema(j))
    ELSE CarriesRequestBody(op, InputSchema(j))

\* C1 as stated: every procedure's operation in the document is under GET with
\* exactly one parameter (in: query, name: input) whose JSON content schema is
\* the effective input schema and no requestBody when its kind is query, and
\* under POST with the schema as JSON requestBody and no parameters otherwise.
C1_Emitted ==
    \A j \in Finished : MethodByKind(j) /\ ShapeByKind(j, StoredOp(j))

\* C1 amended: the method is GET for a query and POST for any other kind in
\* every case; the operation built for the procedure and handed to
\* processOperation carries the parameter (query) or the requestBody (other
\* kinds); the operation in the document carries it too unless processOperation
\* returned a replacement object.
C1_EmittedUnlessReplaced ==
    \A j \in Finished :
        /\ MethodByKind(j)
        /\ ShapeByKind(j, built[j].base)
        /\ (options.processOperation # Some("replace") => ShapeByKind(j, StoredOp(j)))

C1_Witness ==
    /\ pc = "returned"
    /\ options.processOperation = Some("void")
    /\ \E j, k \in Finished :
        /\ router[j].def.type = "query" /\ router[j].def.inputs = <<ObjA1, ObjB2>>
        /\ router[k].def.type = "subscription"
        /\ "get" \in DOMAIN PathItem(j) /\ "post" \in DOMAIN PathItem(k)

(***************************************************************************)
(* C2: the path key.                                                       *)
(***************************************************************************)
RECURSIVE Runs(_, _)
\* The maximal runs of characters other than "/" in s; cur is the run being read.
Runs(s, cur) ==
    IF s = <<>> THEN (IF cur = <<>> THEN <<>> ELSE <<cur>>)
    ELSE IF Head(s) # "/" THEN Runs(Tail(s), Append(cur, Head(s)))
    ELSE IF cur = <<>> THEN Runs(Tail(s), <<>>)
    ELSE <<cur>> \o Runs(Tail(s), <<>>)

NonEmptySegments(pathPrefix) == IF IsDef(pathPrefix) THEN Runs(pathPrefix[1], <<>>) ELSE <<>>

RECURSIVE Slashed(_)
\* "/" before every part.
Slashed(parts) ==
    IF parts = <<>> THEN <<>> ELSE <<"/">> \o Head(parts) \o Slashed(Tail(parts))

\* C2: the path key is "/" + the non-empty "/"-separated segments of pathPrefix
\* + the dotted name, joined with "/"; two prefixes with the same non-empty
\* segments give the same key; an absent, empty or "/" prefix gives "/" + name.
C2_PathKey ==
    \A j \in Finished :
        /\ built[j].key = Slashed(NonEmptySegments(options.pathPrefix) \o <<built[j].name>>)
        /\ \A q \in AllPrefixes :
              NonEmptySegments(q) = NonEmptySegments(options.pathPrefix)
                  => PathKey(q, built[j].name) = built[j].key
        /\ options.pathPrefix \in {Undef, Some(<<>>), Some(<<"/">>)}
              => built[j].key = <<"/">> \o built[j].name
        /\ DOMAIN paths = {built[j].key}

C2_Witness ==
    /\ pc = "returned"
    /\ options.pathPrefix = Some(<<"/", "/", "a", "/">>)
    /\ built[1].name = nUG
    /\ <<"/", "a", "/", "u", ".", "g">> \in DOMAIN paths

(***************************************************************************)
(* C3: the tags derived from the name.                                     *)
(***************************************************************************)
Dots(name) == {i \in DOMAIN name : name[i] = "."}
FirstDot(name) == CHOOSE i \in Dots(name) : \A k \in Dots(name) : i <= k
\* One segment more than dots: two or more segments if there is a dot.
NameTags(name) ==
    IF Dots(name) = {} THEN Arr(<<>>)
    ELSE Arr(<<SubSeq(name, 1, FirstDot(name) - 1)>>)

TruthyIn(meta, k) == IsDef(meta) /\ k \in DOMAIN meta[1] /\ Truthy(meta[1][k])

\* C3 as stated: the operation built for a procedure has tags = [first
\* dot-segment of its name] when the name has two or more segments, and
\* tags = [] when it has one.
C3_TagsFromName ==
    \A j \in Finished : built[j].base.tags = NameTags(built[j].name)

\* C3 amended: that holds when meta carries no truthy tags; when it does, the
\* operation built has tags = meta.tags.
C3_TagsFromNameOrMeta ==
    \A j \in Finished :
        built[j].base.tags = IF TruthyIn(built[j].meta, "tags")
                             THEN built[j].meta[1].tags
                             ELSE NameTags(built[j].name)

C3_Witness ==
    /\ Len(built) = 1
    /\ built[1].name = <<"u", ".", "g">>
    /\ built[1].meta = Undef
    /\ built[1].base.tags = Arr(<< <<"u">> >>)

(***************************************************************************)
(* C4: the hook.                                                           *)
(***************************************************************************)
\* C4: the operation in the document is the operation built when
\* processOperation is absent or returns undefined, and is exactly the value
\* processOperation returned when it returns an object: nothing of the
\* operation built is merged into it.
C4_HookResult ==
    \A j \in Finished :
        /\ options.processOperation \in {Undef, Some("void")}
              => StoredOp(j) = built[j].base
        /\ options.processOperation = Some("replace")
              => StoredOp(j) = Replacement
        /\ options.processOperation = Some("secure")
              => StoredOp(j) = HookReturn("secure", built[j].base, built[j].meta)[1]

C4_Witness ==
    /\ pc = "returned"
    /\ options.processOperation = Some("replace")
    /\ Len(built) = 2
    /\ \A j \in Finished : "operationId" \notin DOMAIN StoredOp(j)

(***************************************************************************)
(* C5: the keys copied from meta.                                          *)
(***************************************************************************)
AllowedKeys == {"tags", "summary", "description", "externalDocs", "deprecated"}
MetaKeys(meta) == IF IsDef(meta) THEN DOMAIN meta[1] ELSE {}
CarriesMeta(op, meta, k) ==
    k \in DOMAIN op /\ k \in MetaKeys(meta) /\ op[k] = meta[1][k]

\* C5 as stated: the operation built carries meta[key] exactly when key is an
\* allowed key whose value is truthy; a key outside the allowed set never
\* appears in it; an allowed key whose value is falsy or absent is omitted.
C5_MetaCopy ==
    \A j \in Finished : \A k \in AllowedKeys \cup MetaKeys(built[j].meta) :
        /\ CarriesMeta(built[j].base, built[j].meta, k)
              <=> (k \in AllowedKeys /\ TruthyIn(built[j].meta, k))
        /\ k \notin AllowedKeys => k \notin DOMAIN built[j].base
        /\ (k \in AllowedKeys /\ ~TruthyIn(built[j].meta, k))
              => k \notin DOMAIN built[j].base

\* C5 amended: as stated for every key but tags; tags is always written, and
\* holds meta.tags exactly when that is truthy.
C5_MetaCopyButTags ==
    \A j \in Finished : \A k \in AllowedKeys \cup MetaKeys(built[j].meta) :
        /\ CarriesMeta(built[j].base, built[j].meta, k)
              <=> (k \in AllowedKeys /\ TruthyIn(built[j].meta, k))
        /\ k \notin AllowedKeys => k \notin DOMAIN built[j].base
        /\ (k \in AllowedKeys \ {"tags"} /\ ~TruthyIn(built[j].meta, k))
              => k \notin DOMAIN built[j].base
        /\ "tags" \in DOMAIN built[j].base

C5_Witness ==
    \E j \in Finished :
        /\ MetaKeys(built[j].meta) = {"summary", "deprecated", "rateLimit"}
        /\ DOMAIN built[j].base = {"tags", "operationId", "responses", "parameters"}

(***************************************************************************)
(* C6, C7: the reconciliation of the inputs.                               *)
(***************************************************************************)
IsArrayKind(inputs) == getZodTypeName(First(inputs)) = Some(ZodArray)

\* C6: when inputs[0] classifies as array, the effective input is inputs[0]
\* itself whatever follows it: the later descriptors are neither merged into
\* it nor inspected, so they raise no error.
C6_ArrayPassthrough ==
    /\ \A j \in Finished :
          IsArrayKind(router[j].def.inputs)
              => /\ built[j].input = router[j].def.inputs[1]
                 /\ ShapeByKind(j, built[j].base)
                 /\ InputSchema(j) = JsonSchemaOf(router[j].def.inputs[1])
    /\ pc = "thrown" => ~IsArrayKind(Current.def.inputs)

C6_Witness ==
    /\ pc = "returned"
    /\ router[1].def.inputs = <<ArrB, Untagged, ObjA1>>
    /\ built[1].input = ArrB

Mergeable(d) ==
    getZodTypeName(Some(d)) \in {Some(ZodObject), Some(ZodVoid), Some(ZodOptional)}
Offenders(inputs) == {i \in DOMAIN inputs : ~Mergeable(inputs[i])}
FirstOffender(inputs) ==
    inputs[CHOOSE i \in Offenders(inputs) : \A k \in Offenders(inputs) : i <= k]

\* C7: when inputs[0] does not classify as array and some descriptor of the
\* procedure's inputs classifies outside {object, void, optional}, generation
\* fails at that procedure with the input-shape error, which reports the
\* offending descriptor's resolved kind and the presence flags of both
\* dialects' marker fields; the build is aborted and no document is returned.
C7_InputShapeError ==
    /\ \A i \in DOMAIN router :
          (~IsArrayKind(router[i].def.inputs) /\ Offenders(router[i].def.inputs) # {})
              => /\ i > idx
                 /\ (pc = "thrown" /\ i = idx + 1)
                       => /\ error[1].kind = "InputShape"
                          /\ error[1].typeName
                                = getZodTypeName(Some(FirstOffender(router[i].def.inputs)))
                          /\ error[1].hasZDef
                                = IsDef(FirstOffender(router[i].def.inputs).zDef)
                          /\ error[1].hasDef
                                = IsDef(FirstOffender(router[i].def.inputs).def)
    /\ pc = "thrown" => api = Undef /\ IsDef(error)
    /\ pc = "returned" => error = Undef

(***************************************************************************)
(* C8: the two converters.                                                 *)
(***************************************************************************)
\* The conversions of the finished procedures: the descriptor and the calls.
Conversions ==
    { [of |-> built[j].input, calls |-> built[j].inputCalls] : j \in Finished }
    \cup { [of |-> router[j].def.output[1], calls |-> built[j].outputCalls] :
             j \in {k \in Finished : IsDef(router[k].def.output)} }

ConversionErrors == {"NativeConversion", "FallbackConversion"}

\* C8: toJsonSchema tries the native converter first whenever it is present;
\* it uses the fallback when the native one is absent and when it throws, and
\* then returns the fallback's result; an exception leaves toJsonSchema only
\* when the fallback throws.
C8_NativeThenFallback ==
    /\ \A c \in Conversions :
          /\ zodMajor = 4 => c.calls[1] = "native"
          /\ zodMajor = 3 => c.calls = <<"fallback">>
          /\ (zodMajor = 4 /\ c.of.repr = "legacyOnly") => c.calls = <<"native", "fallback">>
          /\ (zodMajor = 4 /\ c.of.repr = "any") => c.calls = <<"native">>
    /\ \A j \in Finished :
          ShapeByKind(j, built[j].base)
    /\ (pc = "thrown" /\ error[1].kind \in ConversionErrors)
          => /\ error[1].kind = "FallbackConversion"
             /\ error[1].calls[Len(error[1].calls)] = "fallback"
             /\ zodMajor = 4 => error[1].calls = <<"native", "fallback">>

C8_Witness ==
    /\ zodMajor = 4
    /\ \E j \in Finished :
          /\ built[j].input.repr = "legacyOnly"
          /\ built[j].inputCalls = <<"native", "fallback">>
          /\ ShapeByKind(j, StoredOp(j))

(***************************************************************************)
(* C9: the responses.                                                      *)
(***************************************************************************)
EnvelopeSchema(output) ==
    [type |-> "object",
     properties |->
        [result |-> [type |-> "object",
                     properties |-> [data |-> JsonSchemaOf(output)]]]]

\* C9: every operation built has a responses map with status 200; its
\* description is the output descriptor's description when it carries one and
\* the empty string otherwise; it has application/json content, whose schema is
\* the conversion of the envelope { result: { data: output } }, exactly when the
\* procedure has an output descriptor.
C9_Responses ==
    \A j \in Finished :
        LET output == router[j].def.output
            responses == built[j].base.responses
        IN  /\ DOMAIN responses = {"200"}
            /\ responses["200"].description
                  = IF IsDef(output) /\ IsDef(output[1].description)
                    THEN output[1].description[1] ELSE ""
            /\ IsDef(output)
                  => /\ DOMAIN responses["200"] = {"description", "content"}
                     /\ responses["200"].content = JsonContent(EnvelopeSchema(output[1]))
            /\ ~IsDef(output) => DOMAIN responses["200"] = {"description"}

C9_Witness ==
    \E j \in Finished :
        /\ router[j].def.output = Some(StrOk)
        /\ built[j].base.responses["200"].description = "Success message"
        /\ "content" \in DOMAIN built[j].base.responses["200"]

(***************************************************************************)
(* C10: the document.                                                      *)
(***************************************************************************)
\* C10: every document returned has exactly the fields openapi = "3.0.0",
\* info = {title, version: ""} and paths; for a router with no procedure paths
\* is the empty map.
C10_Document ==
    /\ IsDef(api) <=> pc = "returned"
    /\ pc = "returned"
          => /\ DOMAIN api[1] = {"openapi", "info", "paths"}
             /\ api[1].openapi = "3.0.0"
             /\ DOMAIN api[1].info = {"title", "version"}
             /\ api[1].info.version = ""
             /\ api[1].paths = paths
             /\ router = <<>> => DOMAIN api[1].paths = {}

C10_Witness ==
    /\ pc = "returned"
    /\ router = <<>>
    /\ api = Some([openapi |-> "3.0.0",
                   info |-> [title |-> "tRPC HTTP-RPC", version |-> ""],
                   paths |-> EmptyObj])

(***************************************************************************)
(* C11: the merge of object inputs.                                        *)
(***************************************************************************)
IsObjectKind(d) == getZodTypeName(Some(d)) = Some(ZodObject)
AllObjects(inputs) == \A i \in DOMAIN inputs : IsObjectKind(inputs[i])

DeclaredKeys(inputs) == UNION { DOMAIN inputs[i].shape : i \in DOMAIN inputs }
Declaring(inputs, k) == {i \in DOMAIN inputs : k \in DOMAIN inputs[i].shape}
LastDeclaring(inputs, k) ==
    CHOOSE i \in Declaring(inputs, k) : \A m \in Declaring(inputs, k) : m <= i

RECURSIVE ShapeFold(_)
\* The left fold of shape-merge over the inputs, in declaration order.
ShapeFold(inputs) ==
    IF inputs = <<>> THEN EmptyObj
    ELSE inputs[Len(inputs)].shape @@ ShapeFold(DropLast(inputs))

\* C11: for a procedure whose inputs are all of kind object, the effective
\* input is the left fold of shape-merge over the inputs in declaration order:
\* its keys are the union of the keys of the inputs, a key declared by several
\* inputs has the definition of the last input declaring it, the schema
\* emitted has these properties, and the merge raises no error.
C11_MergeFold ==
    /\ \A j \in Finished :
          LET ins == router[j].def.inputs
              eff == built[j].input
          IN  AllObjects(ins)
                  => /\ IsObjectKind(eff)
                     /\ eff.shape = ShapeFold(ins)
                     /\ DOMAIN eff.shape = DeclaredKeys(ins)
                     /\ \A k \in DeclaredKeys(ins) :
                           eff.shape[k] = ins[LastDeclaring(ins, k)].shape[k]
                     /\ DOMAIN InputSchema(j).properties = DeclaredKeys(ins)
                     /\ \A k \in DeclaredKeys(ins) :
                           InputSchema(j).properties[k]
                               = JsonSchemaOf(ins[LastDeclaring(ins, k)].shape[k])
                     /\ ShapeByKind(j, built[j].base)
    /\ pc = "thrown" => ~AllObjects(Current.def.inputs)

C11_Witness ==
    /\ pc = "returned"
    /\ router[1].def.inputs = <<ObjA1, ObjB2, ObjD3>>
    /\ built[1].input.shape = [name |-> NumLeaf, id |-> NumLeaf]

(***************************************************************************)
(* C12: an output that is no schema.                                       *)
(***************************************************************************)
Unclassified(output) == IsDef(output) /\ getZodTypeName(output) = Undef

\* The input of the procedure reconciles and converts.
InputSucceeds(def) ==
    /\ EffectiveInput(def.inputs).ok
    /\ toJsonSchema(EffectiveInput(def.inputs).value).ok

\* C12 as stated: a procedure whose output descriptor classifies to no kind
\* never finishes; generation fails at it with the invalid-schema error, the
\* build is aborted and no document is returned; a procedure without output
\* descriptor never raises this error.
C12_InvalidOutput ==
    /\ \A i \in DOMAIN router :
          Unclassified(router[i].def.output)
              => /\ i > idx
                 /\ (pc = "thrown" /\ i = idx + 1) => error[1].kind = "InvalidSchema"
    /\ pc = "thrown" => api = Undef /\ IsDef(error)
    /\ (pc = "thrown" /\ ~IsDef(Current.def.output)) => error[1].kind # "InvalidSchema"

\* C12 amended: the error at such a procedure is the invalid-schema error
\* when the procedure's input reconciles and converts; otherwise the error
\* of the input, which is raised first, is the one that aborts the build.
C12_InvalidOutputAfterInput ==
    /\ \A i \in DOMAIN router :
          Unclassified(router[i].def.output)
              => /\ i > idx
                 /\ (pc = "thrown" /\ i = idx + 1)
                       => (error[1].kind = "InvalidSchema" <=> InputSucceeds(router[i].def))
    /\ pc = "thrown" => api = Undef /\ IsDef(error)
    /\ (pc = "thrown" /\ ~IsDef(Current.def.output)) => error[1].kind # "InvalidSchema"

C12_Witness ==
    /\ pc = "thrown"
    /\ idx = 1
    /\ Current.def.output = Some(NoTags)
    /\ Current.def.inputs = <<ObjA1>>
    /\ error = Some([kind |-> "InvalidSchema"])
    /\ api = Undef
    /\ DOMAIN paths # {}

(***************************************************************************)
(* C13: the classification of a descriptor.                                *)
(***************************************************************************)
\* The three locations of a tag, in the order of their priority.
TagLocations(d) ==
    << IF IsDef(d.zDef) THEN d.zDef[1].typeName ELSE Undef,
       IF IsDef(d.zDef) THEN d.zDef[1].type ELSE Undef,
       IF IsDef(d.def) THEN d.def[1].type ELSE Undef >>
Holding(d) == {i \in 1..3 : IsDef(TagLocations(d)[i])}
FirstTag(d) ==
    IF Holding(d) = {} THEN Undef
    ELSE TagLocations(d)[CHOOSE i \in Holding(d) : \A k \in Holding(d) : i <= k]

\* The form of dialect A of a tag.
PrefixedForm(tag) ==
    CASE tag = tObject -> ZodObject
      [] tag = tArray -> ZodArray
      [] tag = tVoid -> ZodVoid
      [] tag = tOptional -> ZodOptional
      [] tag = tString -> ZodString
      [] tag = tNumber -> ZodNumber
      [] OTHER -> tag

Classified(d) ==
    IF FirstTag(d) = Undef THEN Undef ELSE Some(PrefixedForm(FirstTag(d)[1]))

\* C13: getZodTypeName returns the first tag found in the order _def.typeName,
\* _def.type, def.type; a tag of dialect B is returned in the form of dialect A
\* ("Zod" and the first letter in upper case), so a dialect B descriptor tagged
\* k at either location classifies as the dialect A descriptor tagged with the
\* prefixed form of k; a prefixed tag is returned unchanged; the result is
\* undefined exactly when none of the three locations holds a tag.  The loop
\* acts on that classification.
C13_Classify ==
    /\ \A i \in DOMAIN router : \A k \in DOMAIN router[i].def.inputs :
          LET d == router[i].def.inputs[k]
          IN  /\ getZodTypeName(Some(d)) = Classified(d)
              /\ getZodTypeName(Some(d)) = Undef <=> Holding(d) = {}
    /\ \A t \in {tObject, tArray, tVoid, tOptional, tString, tNumber} :
          /\ getZodTypeName(Some(DialectB(t, EmptyObj, Undef, "any")))
                = getZodTypeName(Some(DialectA(PrefixedForm(t), EmptyObj, Undef, "any")))
          /\ getZodTypeName(Some(DialectBDef(t, EmptyObj, Undef, "any")))
                = getZodTypeName(Some(DialectA(PrefixedForm(t), EmptyObj, Undef, "any")))
          /\ getZodTypeName(Some(DialectA(PrefixedForm(t), EmptyObj, Undef, "any")))
                = Some(PrefixedForm(t))
    /\ getZodTypeName(Undef) = Undef
    /\ \A j \in Finished :
          Len(router[j].def.inputs) = 1
              => Classified(router[j].def.inputs[1])
                    \in {Some(ZodArray), Some(ZodObject), Some(ZodVoid), Some(ZodOptional)}
    /\ (pc = "thrown" /\ error[1].kind = "InputShape" /\ Len(Current.def.inputs) = 1)
          => /\ error[1].typeName = Classified(Current.def.inputs[1])
             /\ error[1].typeName
                    \notin {Some(ZodArray), Some(ZodObject), Some(ZodVoid), Some(ZodOptional)}

C13_Witness ==
    /\ pc = "returned"
    /\ router[1].def.inputs
          = << Desc(Some([typeName |-> Undef, type |-> Some(tArray)]),
                    Some([type |-> Some(tString)]), EmptyObj, Undef, "any") >>
    /\ built[1].input = router[1].def.inputs[1]

(***************************************************************************)
(* C14: inputs of kind object, void or optional.                           *)
(***************************************************************************)
\* C14: when inputs[0] does not classify as array and every descriptor of
\* the inputs classifies as object, void or optional, the reconciliation of
\* the inputs raises no error and yields one descriptor, the shape-merge of
\* each later descriptor into the accumulator.
C14_ReconcileCompletes ==
    /\ \A i \in DOMAIN router :
          (~IsArrayKind(router[i].def.inputs) /\ Offenders(router[i].def.inputs) = {})
              => ~(pc = "thrown" /\ i = idx + 1)
    /\ \A j \in Finished :
          (~IsArrayKind(router[j].def.inputs) /\ Offenders(router[j].def.inputs) = {})
              => built[j].input.shape = ShapeFold(router[j].def.inputs)

(***************************************************************************)
(* C15: one path per procedure.                                            *)
(***************************************************************************)
\* C15: under one pathPrefix distinct procedure names have distinct path
\* keys, so every returned document has as many paths as the router has
\* procedures, every path item holds exactly one method, get or post, and no
\* operation is overwritten by a later procedure.
C15_OnePathPerProcedure ==
    /\ \A i, j \in DOMAIN router :
          i # j => PathKey(options.pathPrefix, router[i].name)
                      # PathKey(options.pathPrefix, router[j].name)
    /\ \A i, j \in Finished : i # j => built[i].key # built[j].key
    /\ Cardinality(DOMAIN paths) = idx
    /\ \A k \in DOMAIN paths :
          DOMAIN paths[k] = {"get"} \/ DOMAIN paths[k] = {"post"}
    /\ \A j \in Finished :
          /\ built[j].key \in DOMAIN paths
          /\ PathItem(j) = (built[j].method :> processOperation(built[j].base, built[j].meta))
    /\ pc = "returned"
          => Cardinality(DOMAIN api[1].paths) = Len(router)

C15_Witness ==
    /\ pc = "returned"
    /\ Len(router) = 2
    /\ router[1].name = <<"u", ".">> /\ router[1].def.type = "query"
    /\ router[2].name = <<"u">> /\ router[2].def.type = "mutation"
    /\ options.pathPrefix = Some(<<"u">>)
    /\ DOMAIN api[1].paths = { <<"/", "u", "/", "u", ".">>, <<"/", "u", "/", "u">> }
    /\ DOMAIN api[1].paths[<<"/", "u", "/", "u", ".">>] = {"get"}
    /\ DOMAIN api[1].paths[<<"/", "u", "/", "u">>] = {"post"}

(***************************************************************************)
(* C16: the calls of the hook.                                             *)
(***************************************************************************)
\* The operation is complete: identifier, responses, tags and the input.
FullyBuilt(j, op) ==
    /\ {"operationId", "responses", "tags"} \subseteq DOMAIN op
    /\ op.operationId = router[j].name
    /\ ShapeByKind(j, op)

\* C16: processOperation is invoked exactly once per procedure, in the order
\* of the router, with the operation built for that procedure, complete, and
\* with the procedure's meta as it is (the keys outside the allowed set
\* included); when the build aborts at a procedure, the hook has been invoked
\* for exactly the procedures before it.
C16_HookCalls ==
    /\ IsDef(options.processOperation)
          => /\ Len(hookCalls) = idx
             /\ \A j \in 1..Len(hookCalls) :
                   /\ hookCalls[j].meta = router[j].def.meta
                   /\ hookCalls[j].op = built[j].base
                   /\ FullyBuilt(j, hookCalls[j].op)
             /\ pc = "returned" => Len(hookCalls) = Len(router)
             /\ pc = "thrown" => Len(hookCalls) < Len(router)
    /\ ~IsDef(options.processOperation) => hookCalls = <<>>
    /\ Len(built) = idx

C16_Witness ==
    /\ pc = "thrown"
    /\ options.processOperation = Some("secure")
    /\ Len(router) = 2
    /\ Len(hookCalls) = 1
    /\ "requiresAuth" \in MetaKeys(hookCalls[1].meta)
    /\ hookCalls[1].op.operationId = router[1].name
    /\ "security" \in DOMAIN StoredOp(1)

====
